---- MODULE Spec2Model ----
(***************************************************************************)
(* The to-do list of krishna20000/my-next-app: the client-side task store  *)
(* (React state of the TodoList component) and the remote "todos" table it *)
(* mirrors.  Three variants of the component exist in the repository:      *)
(*   "auth"   src/src/components/TodoList.js  (user-scoped, with editing)  *)
(*   "page"   src/src/app/page.js             (single user)                *)
(*   "plain"  src/unnamed/part_000            (single user, failures of    *)
(*            toggle/delete/clear are only logged)                         *)
(* Every async handler is modelled in its three steps: the call (the       *)
(* handler runs up to its await and captures the `todos` of the render it  *)
(* was created in), the remote execution of the request, and the           *)
(* continuation after the await, which applies the response.               *)
(* Spec is a session of the task list of a signed-in user.  GateSpec is    *)
(* the session gate of the authenticated variant: Home                     *)
(* (src/unnamed/part_001), the login form (src/unnamed/part_002), the      *)
(* mount and load of the task list and its sign-out.                       *)
(***************************************************************************)
EXTENDS Integers, Sequences, FiniteSets, TLC

VARIABLES variant, mounted, remote, nextId, acts, inflight, todos, newTodo,
          filter, loading, error, editingTodo, editText, last, gesture,
          faultless, toggled, user, route, isLogin, email, password,
          authError, authLoading, calls

\* variant      which of the three components runs
\* mounted      the mount effect has run (fetchTodos was called)
\* remote       the rows of the remote todos table
\* nextId       the id the remote collaborator gives the next inserted row
\* inflight     the requests awaited by handlers: sent, or answered ("done")
\* todos, newTodo, filter, loading, error, editingTodo, editText
\*              the useState values of the component
\* acts         how many gestures the user has made
\* gesture      the handler of the user's last gesture
\* last         the last continuation that ran
\* faultless    no request was answered with an error or without its row
\* toggled      the last successful toggle applied: task, the completed value
\*              its handler read, and the gesture count when it was applied
\* user         the identity the auth context holds, or none
\* route        the route the router shows
\* isLogin, email, password, authError, authLoading
\*              the useState values of the login form (its error and loading)
\* calls        the calls of the identity collaborator awaited by handlers
vars == <<variant, mounted, remote, nextId, acts, inflight, todos, newTodo,
          filter, loading, error, editingTodo, editText, last, gesture,
          faultless, toggled, user, route, isLogin, email, password,
          authError, authLoading, calls>>

\* the state of the session gate and of the login form
session == <<user, route, isLogin, email, password, authError, authLoading,
             calls>>

(* ------------------------------ bounds --------------------------------- *)

\* number of user gestures (input changes, clicks, submits) in a session
MaxActs == 3
\* number of requests outstanding at the same time
MaxInFlight == 2

(* ------------------------------ values --------------------------------- *)

Variants == {"auth", "page", "plain"}
Filters == {"all", "active", "completed"}
Null == "null"
Me == "me"
Other == "other"
NoUser == "none"
EmptyMsg == "Todo text cannot be empty"
NoDataMsg == "No data returned from insert"
RemoteMsg == "remote failure"
AuthMsg == "authentication error"
HomeRoute == "/"
AuthRoute == "/auth"

\* what the user enters into the email or the password field: nothing, a word
Entered == {<<>>, <<"u">>}

\* what the user types into an input: nothing, blanks only, a padded word
Typed == {<<>>, <<" ">>, <<" ", "b", " ">>}

\* String.prototype.trim: drop leading and trailing white space
RECURSIVE TrimLeft(_)
TrimLeft(s) == IF s # <<>> /\ Head(s) = " " THEN TrimLeft(Tail(s)) ELSE s

RECURSIVE TrimRight(_)
TrimRight(s) ==
    IF s # <<>> /\ s[Len(s)] = " " THEN TrimRight(SubSeq(s, 1, Len(s) - 1)) ELSE s

trim(s) == TrimRight(TrimLeft(s))

(* -------------------- Array.prototype helpers -------------------------- *)

RECURSIVE SelectNot(_, _)
\* todos.filter(todo => todo.id !== id)
SelectNot(list, id) ==
    IF list = <<>> THEN <<>>
    ELSE IF Head(list).id # id THEN <<Head(list)>> \o SelectNot(Tail(list), id)
         ELSE SelectNot(Tail(list), id)

RECURSIVE SelectCompleted(_, _)
\* todos.filter(todo => todo.completed = c)
SelectCompleted(list, c) ==
    IF list = <<>> THEN <<>>
    ELSE IF Head(list).completed = c
         THEN <<Head(list)>> \o SelectCompleted(Tail(list), c)
         ELSE SelectCompleted(Tail(list), c)

\* todos.find(t => t.id === id)
find(list, id) ==
    LET idx == {i \in 1..Len(list) : list[i].id = id}
    IN list[CHOOSE i \in idx : \A j \in idx : i <= j]

Ids(list) == {list[i].id : i \in 1..Len(list)}

\* queries without the .eq('user_id', user.id) condition
ScopeAll(v) == {Me, Other, NoUser}

\* the rows a query scoped with .eq('user_id', user.id) sees; the single-user
\* variants put no such condition on their queries
Scope(v) == IF v = "auth" THEN {Me} ELSE {Me, Other, NoUser}
InScope(v, table) == {r \in table : r.user_id \in Scope(v)}

RECURSIVE OrderDesc(_)
\* .order('created_at', { ascending: false })
OrderDesc(rows) ==
    IF rows = {} THEN <<>>
    ELSE LET top == CHOOSE r \in rows : \A q \in rows : q.created_at <= r.created_at
         IN <<top>> \o OrderDesc(rows \ {top})

(* ------------------------- the remote table ---------------------------- *)

\* useState(null) of editingTodo: no task is being edited
NoId == 0

\* user_id a variant writes into the rows it inserts
Owner(v) == IF v = "auth" THEN Me ELSE NoUser

Row(id, text, completed, owner, created) ==
    [id |-> id, text |-> text, completed |-> completed, user_id |-> owner,
     created_at |-> created]

\* rows of the table when the session starts: an active and a completed task
\* of the current scope and, where rows have owners, a task of another user
SeedRows(v) ==
    {Row(1, <<"a">>, FALSE, Owner(v), 1), Row(2, <<"a">>, TRUE, Owner(v), 2)}
    \cup (IF v = "auth" THEN {Row(3, <<"a">>, TRUE, Other, 3)} ELSE {})

\* new Date() at the time of a call: later calls read later times
Now == Cardinality(SeedRows(variant)) + acts + 1

Request(rid, op, id, text, completed, snap) ==
    [rid |-> rid, op |-> op, id |-> id, text |-> text, completed |-> completed,
     snap |-> snap, created_at |-> Now, phase |-> "sent", ok |-> FALSE,
     data |-> <<>>]

\* the table after the remote collaborator has executed request r
RemoteApply(v, table, r, newId) ==
    CASE r.op = "insert" ->
           table \cup {Row(newId, r.text, FALSE, Owner(v), r.created_at)}
      [] r.op = "updateText" ->
           {IF q.id = r.id /\ q.user_id \in Scope(v)
            THEN [q EXCEPT !.text = r.text] ELSE q : q \in table}
      [] r.op = "updateCompleted" ->
           {IF q.id = r.id /\ q.user_id \in Scope(v)
            THEN [q EXCEPT !.completed = r.completed] ELSE q : q \in table}
      [] r.op = "delete" ->
           {q \in table : ~(q.id = r.id /\ q.user_id \in Scope(v))}
      [] r.op = "deleteCompleted" ->
           {q \in table : ~(q.completed /\ q.user_id \in Scope(v))}
      [] OTHER -> table

\* a collaborator that gives an inserted row the id of the oldest row
RemoteDataReusedId(v, table, r, newId) ==
    CASE r.op = "load" -> OrderDesc(InScope(v, table))
      [] r.op = "insert" -> <<Row(1, r.text, FALSE, Owner(v), r.created_at)>>
      [] OTHER -> <<>>

\* the `data` of the response to request r
RemoteData(v, table, r, newId) ==
    CASE r.op = "load" -> OrderDesc(InScope(v, table))
      [] r.op = "insert" -> <<Row(newId, r.text, FALSE, Owner(v), r.created_at)>>
      [] OTHER -> <<>>

(* ---------------- what each handler does with its response ------------- *)

\* addTodo testing the text as typed, without trim()
addTodoValidUntrimmed(text) == text # <<>>

\* `if (!newTodo.trim())` is false: the text passes validation
addTodoValid(text) == trim(text) # <<>>

\* setTodos(data || [])
fetchTodosThen(cur, ok, data) == IF ok THEN data ELSE cur

\* setTodos([data[0], ...todos])
addTodoThen(cur, snap, ok, data) ==
    IF ok /\ data # <<>> THEN <<data[1]>> \o snap ELSE cur

\* setTodos(todos.map(todo => todo.id === id ? {...todo, text} : todo))
saveEditThen(cur, snap, ok, id, text) ==
    IF ok
    THEN [i \in 1..Len(snap) |->
            IF snap[i].id = id THEN [snap[i] EXCEPT !.text = text] ELSE snap[i]]
    ELSE cur

\* setTodos(todos.map(todo => todo.id === id ? {...todo, completed: !todo.completed} : todo))
toggleTodoThen(cur, snap, ok, id) ==
    IF ok
    THEN [i \in 1..Len(snap) |->
            IF snap[i].id = id
            THEN [snap[i] EXCEPT !.completed = ~snap[i].completed] ELSE snap[i]]
    ELSE cur

\* deleteTodo removing the task before the response is known
deleteTodoOptimistic(cur, snap, ok, id) == SelectNot(cur, id)

\* setTodos(todos.filter(todo => todo.id !== id))
deleteTodoThen(cur, snap, ok, id) == IF ok THEN SelectNot(snap, id) ELSE cur

\* setTodos(todos.filter(todo => !todo.completed))
clearCompletedThen(cur, snap, ok) == IF ok THEN SelectCompleted(snap, FALSE) ELSE cur

\* catch blocks that only log the failure
CatchOnlyLogs(v, op) == FALSE

\* the catch blocks: setError(error.message), which the "plain" variant has
\* only in fetchTodos and addTodo
CatchSetsError(v, op) == v # "plain" \/ op \in {"load", "insert"}

\* the error state after the continuation of request r
ErrorThen(v, cur, r) ==
    IF ~r.ok
    THEN (IF CatchSetsError(v, r.op) THEN RemoteMsg ELSE cur)
    ELSE IF r.op = "insert" /\ r.data = <<>> /\ v # "auth" THEN NoDataMsg
    ELSE cur

\* filteredTodos without the branch of the "completed" mode
filteredTodosTwoModes(list, f) ==
    IF f = "active" THEN SelectCompleted(list, FALSE) ELSE list

\* const filteredTodos = todos.filter(...)
filteredTodos(list, f) ==
    IF f = "active" THEN SelectCompleted(list, FALSE)
    ELSE IF f = "completed" THEN SelectCompleted(list, TRUE)
    ELSE list

(* ------------------------------ state ---------------------------------- *)

\* the last continuation that ran: of which request, for which task, whether
\* the request had succeeded, and the local list it found
Last(op, id, ok) == [op |-> op, id |-> id, ok |-> ok, pre |-> todos]

Init ==
    /\ variant \in Variants
    /\ mounted = FALSE
    /\ remote = SeedRows(variant)
    /\ nextId = Cardinality(SeedRows("auth")) + 1
    /\ acts = 0
    /\ inflight = {}
    /\ todos = <<>>
    /\ newTodo = <<>>
    /\ filter = "all"
    /\ loading = TRUE
    /\ error = Null
    /\ editingTodo = NoId
    /\ editText = <<>>
    /\ last = Last("none", NoId, TRUE)
    /\ gesture = "none"
    /\ faultless = TRUE
    /\ toggled = [id |-> NoId, was |-> FALSE, at |-> 0]
    /\ user = (IF variant = "auth" THEN Me ELSE Null)
    /\ route = HomeRoute
    /\ isLogin = TRUE
    /\ email = <<>>
    /\ password = <<>>
    /\ authError = Null
    /\ authLoading = FALSE
    /\ calls = {}

\* Home without its `if (!user) return null`
HomeUngated(u) == "TodoList"

\* what Home renders for the identity u of the auth context
Home(u) == IF u = Null THEN "nothing" ELSE "TodoList"

\* the component on the screen: the login form on its route, and on the home
\* route what Home renders (the single-user variants are the home page)
Shown ==
    IF route = AuthRoute THEN "Auth"
    ELSE IF variant = "auth" THEN Home(user) ELSE "TodoList"

\* the controls exist once the spinner is gone
Rendered == mounted /\ ~loading

\* the user makes one more gesture on the rendered controls
Gesture(handler) ==
    /\ Rendered
    /\ acts < MaxActs
    /\ acts' = acts + 1
    /\ gesture' = handler
    /\ UNCHANGED <<faultless, toggled>>

\* the session may issue another request
CanSend == Cardinality(inflight) < MaxInFlight

Send(op, id, text, completed) ==
    inflight' = inflight \cup {Request(acts + 1, op, id, text, completed, todos)}

Displayed == Ids(filteredTodos(todos, filter))

(* ------------------------ handlers: the calls -------------------------- *)

\* useEffect(() => { if (user) fetchTodos(); }, [user]) of the mounted
\* component, and fetchTodos up to its await
fetchTodosCall ==
    /\ Shown = "TodoList"
    /\ variant = "auth" => user # Null
    /\ ~mounted
    /\ mounted' = TRUE
    /\ inflight' = inflight \cup {Request(0, "load", NoId, <<>>, FALSE, todos)}
    /\ UNCHANGED session
    /\ UNCHANGED <<variant, remote, nextId, acts, todos, newTodo, filter,
                   loading, error, editingTodo, editText, last, gesture, faultless,
                   toggled>>

\* onChange of the add form's input
setNewTodo(t) ==
    /\ Gesture("setNewTodo")
    /\ t # newTodo
    /\ newTodo' = t
    /\ UNCHANGED session
    /\ UNCHANGED <<variant, mounted, remote, nextId, inflight, todos,
                   filter, loading, error, editingTodo, editText, last>>

\* addTodo with a text that fails validation
addTodoRejected ==
    /\ Gesture("addTodo")
    /\ ~addTodoValid(newTodo)
    /\ error' = EmptyMsg
    /\ UNCHANGED session
    /\ UNCHANGED <<variant, mounted, remote, nextId, inflight, todos,
                   newTodo, filter, loading, editingTodo, editText, last>>

\* addTodo up to its await
addTodoCall ==
    /\ Gesture("addTodo")
    /\ addTodoValid(newTodo)
    /\ CanSend
    /\ error' = Null
    /\ Send("insert", NoId, trim(newTodo), FALSE)
    /\ UNCHANGED session
    /\ UNCHANGED <<variant, mounted, remote, nextId, todos, newTodo, filter,
                   loading, editingTodo, editText, last>>

\* toggleTodo up to its await
toggleTodoCall(id) ==
    /\ Gesture("toggleTodo")
    /\ id \in Displayed
    /\ CanSend
    /\ Send("updateCompleted", id, <<>>, ~find(todos, id).completed)
    /\ UNCHANGED session
    /\ UNCHANGED <<variant, mounted, remote, nextId, todos, newTodo, filter,
                   loading, error, editingTodo, editText, last>>

\* deleteTodo up to its await; the button is in the row's viewing branch
deleteTodoCall(id) ==
    /\ Gesture("deleteTodo")
    /\ id \in Displayed
    /\ editingTodo # id
    /\ CanSend
    /\ Send("delete", id, <<>>, FALSE)
    /\ UNCHANGED session
    /\ UNCHANGED <<variant, mounted, remote, nextId, todos, newTodo, filter,
                   loading, error, editingTodo, editText, last>>

\* clearCompleted up to its await; the button shows when a task is completed
clearCompletedCall ==
    /\ Gesture("clearCompleted")
    /\ \E i \in 1..Len(todos) : todos[i].completed
    /\ CanSend
    /\ Send("deleteCompleted", NoId, <<>>, FALSE)
    /\ UNCHANGED session
    /\ UNCHANGED <<variant, mounted, remote, nextId, todos, newTodo, filter,
                   loading, error, editingTodo, editText, last>>

\* onClick of a filter button
setFilter(f) ==
    /\ Gesture("setFilter")
    /\ f # filter
    /\ filter' = f
    /\ UNCHANGED session
    /\ UNCHANGED <<variant, mounted, remote, nextId, inflight, todos,
                   newTodo, loading, error, editingTodo, editText, last>>

\* startEditing(todo)
startEditing(id) ==
    /\ Gesture("startEditing")
    /\ variant = "auth"
    /\ id \in Displayed
    /\ editingTodo # id
    /\ editingTodo' = id
    /\ editText' = find(todos, id).text
    /\ UNCHANGED session
    /\ UNCHANGED <<variant, mounted, remote, nextId, inflight, todos,
                   newTodo, filter, loading, error, last>>

\* onChange of the edit input of the row being edited
setEditText(t) ==
    /\ Gesture("setEditText")
    /\ variant = "auth"
    /\ editingTodo \in Displayed
    /\ t # editText
    /\ editText' = t
    /\ UNCHANGED session
    /\ UNCHANGED <<variant, mounted, remote, nextId, inflight, todos,
                   newTodo, filter, loading, error, editingTodo, last>>

\* saveEdit(id) up to its await
saveEditCall ==
    /\ Gesture("saveEdit")
    /\ variant = "auth"
    /\ editingTodo \in Displayed
    /\ CanSend
    /\ Send("updateText", editingTodo, trim(editText), FALSE)
    /\ UNCHANGED session
    /\ UNCHANGED <<variant, mounted, remote, nextId, todos, newTodo, filter,
                   loading, error, editingTodo, editText, last>>

\* cancelEdit leaving the draft text in place
cancelEditKeepsDraft ==
    /\ Gesture("cancelEdit")
    /\ variant = "auth"
    /\ editingTodo \in Displayed
    /\ editingTodo' = NoId
    /\ UNCHANGED session
    /\ UNCHANGED <<variant, mounted, remote, nextId, inflight, todos,
                   newTodo, filter, loading, error, editText, last>>

\* cancelEdit
cancelEdit ==
    /\ Gesture("cancelEdit")
    /\ variant = "auth"
    /\ editingTodo \in Displayed
    /\ editingTodo' = NoId
    /\ editText' = <<>>
    /\ UNCHANGED session
    /\ UNCHANGED <<variant, mounted, remote, nextId, inflight, todos,
                   newTodo, filter, loading, error, last>>

(* --------------------- the remote collaborator ------------------------- *)

\* the collaborator executes request r and answers it
RemoteOk(r) ==
    /\ r.phase = "sent"
    /\ remote' = RemoteApply(variant, remote, r, nextId)
    /\ nextId' = IF r.op = "insert" THEN nextId + 1 ELSE nextId
    /\ inflight' = (inflight \ {r}) \cup
          {[r EXCEPT !.phase = "done", !.ok = TRUE,
                     !.data = RemoteData(variant, remote, r, nextId)]}
    /\ UNCHANGED session
    /\ UNCHANGED <<variant, mounted, acts, todos, newTodo, filter, loading,
                   error, editingTodo, editText, last, gesture, faultless,
                   toggled>>

\* the insert is executed but the response carries no row
RemoteOkNoData(r) ==
    /\ r.phase = "sent"
    /\ r.op = "insert"
    /\ remote' = RemoteApply(variant, remote, r, nextId)
    /\ nextId' = nextId + 1
    /\ inflight' = (inflight \ {r}) \cup {[r EXCEPT !.phase = "done", !.ok = TRUE]}
    /\ faultless' = FALSE
    /\ UNCHANGED session
    /\ UNCHANGED <<variant, mounted, acts, todos, newTodo, filter, loading,
                   error, editingTodo, editText, last, gesture, toggled>>

\* the collaborator answers request r with an error
RemoteFail(r) ==
    /\ r.phase = "sent"
    /\ inflight' = (inflight \ {r}) \cup {[r EXCEPT !.phase = "done", !.ok = FALSE]}
    /\ faultless' = FALSE
    /\ UNCHANGED session
    /\ UNCHANGED <<variant, mounted, remote, nextId, acts, todos, newTodo,
                   filter, loading, error, editingTodo, editText, last, gesture,
                   toggled>>

(* --------------------- handlers: after the await ----------------------- *)

\* the local list after the continuation of request r
TodosThen(cur, r) ==
    CASE r.op = "load" -> fetchTodosThen(cur, r.ok, r.data)
      [] r.op = "insert" -> addTodoThen(cur, r.snap, r.ok, r.data)
      [] r.op = "updateText" -> saveEditThen(cur, r.snap, r.ok, r.id, r.text)
      [] r.op = "updateCompleted" -> toggleTodoThen(cur, r.snap, r.ok, r.id)
      [] r.op = "delete" -> deleteTodoThen(cur, r.snap, r.ok, r.id)
      [] r.op = "deleteCompleted" -> clearCompletedThen(cur, r.snap, r.ok)

\* the code after the await of the handler that sent r
Continue(r) ==
    /\ r.phase = "done"
    /\ inflight' = inflight \ {r}
    /\ todos' = TodosThen(todos, r)
    /\ error' = ErrorThen(variant, error, r)
    /\ loading' = IF r.op = "load" THEN FALSE ELSE loading
    /\ newTodo' = IF r.op = "insert" /\ r.ok /\ r.data # <<>> THEN <<>> ELSE newTodo
    /\ editingTodo' = IF r.op = "updateText" /\ r.ok THEN NoId ELSE editingTodo
    /\ last' = Last(r.op, r.id, r.ok)
    /\ toggled' = IF r.op = "updateCompleted" /\ r.ok
                  THEN [id |-> r.id, was |-> find(r.snap, r.id).completed,
                        at |-> acts]
                  ELSE toggled
    /\ UNCHANGED session
    /\ UNCHANGED <<variant, mounted, remote, nextId, acts, filter, editText,
                   gesture, faultless>>

(* ------------------- the session gate and the login form --------------- *)

\* the variables of the task list that no handler of the gate touches
kept == <<variant, remote, nextId, acts, newTodo, filter, editingTodo,
          editText, last, gesture, faultless, toggled>>

\* the number the next call of the identity collaborator is known by
FreeCall == CHOOSE n \in 1..(Cardinality(calls) + 1) : \A c \in calls : c.n # n

\* a call of the identity collaborator awaited by a handler of the component
\* on the screen; `live`: that component is still mounted
Call(op) == [n |-> FreeCall, op |-> op, phase |-> "sent", ok |-> FALSE,
             live |-> TRUE]

LoginOps == {"signIn", "signUp"}

\* the calls after the components that are on the screen no more unmounted
Unmount(cs, shownThen) ==
    {IF (c.op = "signOut" /\ shownThen # "TodoList")
        \/ (c.op \in LoginOps /\ shownThen # "Auth")
     THEN [c EXCEPT !.live = FALSE] ELSE c : c \in cs}

\* a task list that leaves the screen loses its state: the next one starts
\* from the useState defaults
TodoListThen(shownThen) ==
    IF Shown = "TodoList" /\ shownThen # "TodoList"
    THEN /\ mounted' = FALSE
         /\ loading' = TRUE
         /\ todos' = <<>>
         /\ error' = Null
         /\ inflight' = {}
    ELSE UNCHANGED <<mounted, loading, todos, error, inflight>>

\* the submit button with no disabled attribute
SubmitAlwaysEnabled == TRUE

\* <button type="submit" disabled={loading}>
SubmitEnabled == ~authLoading

\* Home's effect: if (!user) router.push('/auth')
HomeEffect ==
    /\ variant = "auth"
    /\ route = HomeRoute
    /\ user = Null
    /\ route' = AuthRoute
    /\ UNCHANGED <<user, isLogin, email, password, authError, authLoading, calls>>
    /\ UNCHANGED <<mounted, loading, todos, error, inflight>>
    /\ UNCHANGED kept

\* onChange of the email field
setEmail(t) ==
    /\ Shown = "Auth"
    /\ t # email
    /\ email' = t
    /\ UNCHANGED <<user, route, isLogin, password, authError, authLoading, calls>>
    /\ UNCHANGED <<mounted, loading, todos, error, inflight>>
    /\ UNCHANGED kept

\* onChange of the password field
setPassword(t) ==
    /\ Shown = "Auth"
    /\ t # password
    /\ password' = t
    /\ UNCHANGED <<user, route, isLogin, email, authError, authLoading, calls>>
    /\ UNCHANGED <<mounted, loading, todos, error, inflight>>
    /\ UNCHANGED kept

\* onClick of the mode button: setIsLogin(!isLogin)
setIsLogin ==
    /\ Shown = "Auth"
    /\ isLogin' = ~isLogin
    /\ UNCHANGED <<user, route, email, password, authError, authLoading, calls>>
    /\ UNCHANGED <<mounted, loading, todos, error, inflight>>
    /\ UNCHANGED kept

\* handleSubmit up to its await; both fields are `required`
handleSubmitCall ==
    /\ Shown = "Auth"
    /\ SubmitEnabled
    /\ email # <<>>
    /\ password # <<>>
    /\ Cardinality(calls) < MaxInFlight
    /\ authError' = Null
    /\ authLoading' = TRUE
    /\ calls' = calls \cup {Call(IF isLogin THEN "signIn" ELSE "signUp")}
    /\ UNCHANGED <<user, route, isLogin, email, password>>
    /\ UNCHANGED <<mounted, loading, todos, error, inflight>>
    /\ UNCHANGED kept

\* handleSignOut up to its await
handleSignOutCall ==
    /\ Shown = "TodoList"
    /\ variant = "auth"
    /\ Rendered
    /\ Cardinality(calls) < MaxInFlight
    /\ calls' = calls \cup {Call("signOut")}
    /\ UNCHANGED <<user, route, isLogin, email, password, authError, authLoading>>
    /\ UNCHANGED <<mounted, loading, todos, error, inflight>>
    /\ UNCHANGED kept

\* the identities the auth context may hold once call op has succeeded; the
\* contract does not say whether a sign-up also signs in
Resolved(op, u) ==
    CASE op = "signOut" -> {Null}
      [] op = "signIn" -> {Me}
      [] op = "signUp" -> {u, Me}

\* the identity collaborator carries out call c and the auth context takes
\* the new identity; Home renders again
IdentityOk(c) ==
    /\ c.phase = "sent"
    /\ user' \in Resolved(c.op, user)
    /\ UNCHANGED route
    /\ UNCHANGED kept
    /\ calls' = Unmount((calls \ {c}) \cup {[c EXCEPT !.phase = "done", !.ok = TRUE]},
                        Shown')
    /\ TodoListThen(Shown')
    /\ UNCHANGED <<isLogin, email, password, authError, authLoading>>

\* the identity collaborator fails call c with an authentication error
IdentityFail(c) ==
    /\ c.phase = "sent"
    /\ calls' = (calls \ {c}) \cup {[c EXCEPT !.phase = "done", !.ok = FALSE]}
    /\ UNCHANGED <<user, route, isLogin, email, password, authError, authLoading>>
    /\ UNCHANGED <<mounted, loading, todos, error, inflight>>
    /\ UNCHANGED kept

\* handleSubmit after its await: router.push('/') or setError, setLoading
handleSubmitThen(c) ==
    /\ c.phase = "done"
    /\ c.op \in LoginOps
    /\ route' = (IF c.ok THEN HomeRoute ELSE route)
    /\ UNCHANGED user
    /\ UNCHANGED kept
    /\ calls' = Unmount(calls \ {c}, Shown')
    /\ IF Shown' # "Auth"
       THEN /\ isLogin' = TRUE
            /\ email' = <<>>
            /\ password' = <<>>
            /\ authError' = Null
            /\ authLoading' = FALSE
       ELSE /\ authError' = (IF c.live /\ ~c.ok THEN AuthMsg ELSE authError)
            /\ authLoading' = (IF c.live THEN FALSE ELSE authLoading)
            /\ UNCHANGED <<isLogin, email, password>>
    /\ TodoListThen(Shown')

\* handleSignOut with router.push('/auth') after its try block
signOutPushAlways(ok, cur) == AuthRoute

\* the route after handleSignOut's await: router.push('/auth') is in the try
\* block, after the await
signOutPush(ok, cur) == IF ok THEN AuthRoute ELSE cur

\* handleSignOut after its await: router.push('/auth') or setError
handleSignOutThen(c) ==
    /\ c.phase = "done"
    /\ c.op = "signOut"
    /\ route' = signOutPush(c.ok, route)
    /\ UNCHANGED user
    /\ UNCHANGED kept
    /\ calls' = Unmount(calls \ {c}, Shown')
    /\ IF c.ok
       THEN TodoListThen(Shown')
       ELSE /\ error' = (IF c.live THEN AuthMsg ELSE error)
            /\ UNCHANGED <<mounted, loading, todos, inflight>>
    /\ UNCHANGED <<isLogin, email, password, authError, authLoading>>

Next ==
    \/ fetchTodosCall
    \/ \E t \in Typed : setNewTodo(t)
    \/ addTodoRejected
    \/ addTodoCall
    \/ \E id \in Displayed : toggleTodoCall(id)
    \/ \E id \in Displayed : deleteTodoCall(id)
    \/ clearCompletedCall
    \/ \E f \in Filters : setFilter(f)
    \/ \E id \in Displayed : startEditing(id)
    \/ \E t \in Typed : setEditText(t)
    \/ saveEditCall
    \/ cancelEdit
    \/ \E r \in inflight : RemoteOk(r)
    \/ \E r \in inflight : RemoteOkNoData(r)
    \/ \E r \in inflight : RemoteFail(r)
    \/ \E r \in inflight : Continue(r)

Spec == Init /\ [][Next]_vars

\* a session of the authenticated variant that starts on the home route,
\* signed in or not
GateInit ==
    /\ variant = "auth"
    /\ mounted = FALSE
    /\ remote = SeedRows(variant)
    /\ nextId = Cardinality(SeedRows("auth")) + 1
    /\ acts = 0
    /\ inflight = {}
    /\ todos = <<>>
    /\ newTodo = <<>>
    /\ filter = "all"
    /\ loading = TRUE
    /\ error = Null
    /\ editingTodo = NoId
    /\ editText = <<>>
    /\ last = Last("none", NoId, TRUE)
    /\ gesture = "none"
    /\ faultless = TRUE
    /\ toggled = [id |-> NoId, was |-> FALSE, at |-> 0]
    /\ user \in {Null, Me}
    /\ route = HomeRoute
    /\ isLogin = TRUE
    /\ email = <<>>
    /\ password = <<>>
    /\ authError = Null
    /\ authLoading = FALSE
    /\ calls = {}

\* the gate, the login form, the mount of the task list and its sign-out
GateNext ==
    \/ HomeEffect
    \/ \E t \in Entered : setEmail(t)
    \/ \E t \in Entered : setPassword(t)
    \/ setIsLogin
    \/ handleSubmitCall
    \/ handleSignOutCall
    \/ \E c \in calls : IdentityOk(c)
    \/ \E c \in calls : IdentityFail(c)
    \/ \E c \in calls : handleSubmitThen(c)
    \/ \E c \in calls : handleSignOutThen(c)
    \/ fetchTodosCall
    \/ \E r \in inflight : RemoteOk(r)
    \/ \E r \in inflight : RemoteFail(r)
    \/ \E r \in inflight : Continue(r)

GateSpec == GateInit /\ [][GateNext]_vars

(* ======================= the claims of the spec ======================== *)

\* the step is the continuation of request r
Continues(r) == r \in inflight /\ r.phase = "done" /\ inflight' = inflight \ {r}

\* the step is a gesture of the user
GestureStep == acts' # acts

\* a text that is empty or only white space
IsBlank(t) == \A i \in 1..Len(t) : t[i] = " "

\* id, text and completed of a task
Task(q) == [id |-> q.id, text |-> q.text, completed |-> q.completed]

Tasks(list) == {Task(list[i]) : i \in 1..Len(list)}

\* the elements of list at the positions satisfying Keep(_), in their order
RECURSIVE Pick(_, _, _)
Pick(list, keep, i) ==
    IF i > Len(list) THEN <<>>
    ELSE (IF i \in keep THEN <<list[i]>> ELSE <<>>) \o Pick(list, keep, i + 1)

\* a is list b with some elements left out
IsSubseq(a, b) == \E keep \in SUBSET (1..Len(b)) : a = Pick(b, keep, 1)

HasActive(list) == \E i \in 1..Len(list) : ~list[i].completed
HasCompleted(list) == \E i \in 1..Len(list) : list[i].completed

\* C1: whenever no request is outstanding (the list has been loaded and no
\* request of the session failed or came back without its row), the local
\* list holds exactly the tasks of the remote table in the current scope:
\* same ids, same text, same completed, each once.
C1_MirrorConverges ==
    (inflight = {} /\ Rendered /\ faultless)
        => /\ Tasks(todos) = {Task(q) : q \in InScope(variant, remote)}
           /\ Len(todos) = Cardinality(Ids(todos))

\* C2: every remote write that sets a task's text, the insert of Add and the
\* update of SaveEdit, carries a non-empty trimmed text, so no row of the
\* table ever has an empty or blank text.
C2_TextNeverBlank ==
    /\ \A r \in inflight :
          r.op \in {"insert", "updateText"}
              => ~IsBlank(r.text) /\ r.text[1] # " " /\ r.text[Len(r.text)] # " "
    /\ \A q \in remote : ~IsBlank(q.text)

\* C3: submitting the add form with an empty or blank text issues no remote
\* request, sets the validation error and leaves the local list unchanged,
\* in every variant and from every reachable state.
C3_BlankAddRejected ==
    [][(GestureStep /\ gesture' = "addTodo" /\ IsBlank(newTodo))
          => /\ inflight' = inflight
             /\ remote' = remote
             /\ todos' = todos
             /\ error' = EmptyMsg]_vars

C3_Witness ==
    /\ gesture = "addTodo"
    /\ newTodo = <<" ">>
    /\ error = EmptyMsg
    /\ todos # <<>>
    /\ inflight = {}

\* C4: when the response of a successful Add is applied, the new task is the
\* first element of the local list, not completed and with the trimmed text,
\* and the tasks the list held just before follow it in the same order.
C4_AddPrepends ==
    [][\A r \in inflight :
          (Continues(r) /\ r.op = "insert" /\ r.ok /\ r.data # <<>>)
              => /\ todos' # <<>>
                 /\ todos'[1].id = r.data[1].id
                 /\ ~todos'[1].completed
                 /\ todos'[1].text = r.text
                 /\ IsSubseq(todos, Tail(todos'))]_vars

\* C5: when the response of a successful Delete(id) is applied, the local
\* list becomes the list it was just before without the task with that id:
\* every other task stays, unchanged and in the same order.
C5_DeleteRemovesOne ==
    [][\A r \in inflight :
          (Continues(r) /\ r.op = "delete" /\ r.ok)
              => todos' =
                    Pick(todos, {i \in 1..Len(todos) : todos[i].id # r.id}, 1)
       ]_vars

\* C6: a failed remote operation never changes the local list: neither the
\* call of a handler nor the continuation of a request the remote
\* collaborator answered with an error changes it.
C6_FailureKeepsList ==
    [][/\ \A r \in inflight : (Continues(r) /\ ~r.ok) => todos' = todos
       /\ (\E r \in inflight' : r \notin inflight /\ r.phase = "sent")
              => todos' = todos]_vars

C6_Witness ==
    /\ last.op = "delete"
    /\ ~last.ok
    /\ last.pre # <<>>
    /\ todos = last.pre
    /\ inflight = {}

\* C7: in every variant, the continuation of every request the remote
\* collaborator answered with an error sets the error state to the message.
C7_FailureSetsError ==
    [][\A r \in inflight : (Continues(r) /\ ~r.ok) => error' = RemoteMsg]_vars

\* C8: when the response of a successful ClearCompleted is applied, the
\* local list becomes the tasks with completed=false of the list it was just
\* before, in the same order, and the remote table holds no completed task in
\* the current scope.
C8_ClearKeepsActive ==
    [][\A r \in inflight :
          (Continues(r) /\ r.op = "deleteCompleted" /\ r.ok)
              => /\ todos' =
                      Pick(todos, {i \in 1..Len(todos) : ~todos[i].completed}, 1)
                 /\ \A q \in InScope(variant, remote') : ~q.completed]_vars

\* the completed values a list, or the table in scope, has for task id
LocalCompleted(list, id) ==
    {list[i].completed : i \in {j \in 1..Len(list) : list[j].id = id}}
RemoteCompleted(table, id) ==
    {q.completed : q \in {x \in InScope(variant, table) : x.id = id}}

\* C9: a successful ToggleComplete(id) that was called after the response of
\* the previous successful toggle, also of task id, had been applied, and
\* whose own response is applied with no other request outstanding, returns
\* completed of that task to the value it had when that first toggle was
\* called, in the local list and in the remote table (where the task still
\* is), and its continuation changes the completed value of no other task of
\* the list.
C9_ToggleTwice ==
    [][\A r \in inflight :
          (/\ Continues(r) /\ r.op = "updateCompleted" /\ r.ok
           /\ toggled.id = r.id /\ r.rid > toggled.at /\ inflight' = {})
              => /\ LocalCompleted(todos', r.id) \subseteq {toggled.was}
                 /\ RemoteCompleted(remote', r.id) \subseteq {toggled.was}
                 /\ \A i \in 1..Len(todos) :
                       todos[i].id # r.id =>
                          LocalCompleted(todos', todos[i].id)
                              \subseteq {todos[i].completed}
       ]_vars

\* the tasks the filter mode f shows
Shows(q, f) ==
    CASE f = "active" -> ~q.completed
      [] f = "completed" -> q.completed
      [] f = "all" -> TRUE

\* C10: the displayed list is the local list restricted to the tasks of the
\* filter mode (not completed for "active", completed for "completed", all
\* for "all"), in the order of the local list; a change of the filter mode
\* issues no remote request and leaves the local list and the table unchanged.
C10_FilterIsPure ==
    /\ [](filteredTodos(todos, filter) =
             Pick(todos, {i \in 1..Len(todos) : Shows(todos[i], filter)}, 1))
    /\ [][filter' # filter
             => inflight' = inflight /\ todos' = todos /\ remote' = remote]_vars

C10_Witness ==
    /\ gesture = "setFilter"
    /\ filter = "completed"
    /\ HasActive(todos)
    /\ HasCompleted(todos)
    /\ Len(filteredTodos(todos, filter)) < Len(todos)

\* the ids of the rows the table has held and holds no more: rows leave the
\* table only when a delete request is executed
Gone == {id \in 1..(nextId - 1) : \A q \in remote : q.id # id}

\* a Delete or ClearCompleted of the session still awaits its continuation
Deleting == \E r \in inflight : r.op \in {"delete", "deleteCompleted"}

\* C11: a deleted task is in a terminal state: once the responses of the
\* deletes of the session (Delete or ClearCompleted) have been applied and a
\* task they removed from the table is gone from the local list, no later
\* step of the session, whatever request it completes, puts the task into
\* the local list again.
C11_DeletedStaysDeleted ==
    [][\A id \in Gone :
          (~Deleting /\ id \notin Ids(todos)) => id \notin Ids(todos')]_vars

\* the rows of a table that belong to other users than the current one
OthersRows(table) == {q \in table : q.user_id # Me}

\* C12: in the authenticated variant every read and write of the task list
\* is scoped to the current user: the local list and every response hold
\* only tasks of the current user, the rows the session inserts or changes
\* are rows of the current user, and no request changes or removes a row of
\* another user.
C12_ScopedToUser ==
    variant = "auth" =>
        /\ \A i \in 1..Len(todos) : todos[i].user_id = Me
        /\ \A r \in inflight :
              \A i \in 1..Len(r.data) : r.data[i].user_id = Me
        /\ \A q \in remote \ SeedRows("auth") : q.user_id = Me
        /\ OthersRows(remote) = OthersRows(SeedRows("auth"))

C12_Witness ==
    /\ variant = "auth"
    /\ last.op = "deleteCompleted"
    /\ last.ok
    /\ HasCompleted(last.pre)
    /\ todos # <<>>
    /\ \A q \in InScope(variant, remote) : ~q.completed
    /\ \E q \in OthersRows(remote) : q.completed

\* a list in descending order of created_at
IsDesc(list) ==
    \A i \in 1..(Len(list) - 1) : list[i].created_at >= list[i + 1].created_at

Loads(reqs) == {r \in reqs : r.op = "load"}

\* C13: Load makes a single attempt.  When its response is applied, loading
\* becomes false; after a success the local list is the returned sequence,
\* which holds each task of the current scope once, in descending order of
\* created_at; after a failure the error is set, the local list is empty and
\* no load request is outstanding.  Once the load has been called, no step
\* issues another load request.
C13_LoadOnce ==
    [][/\ \A r \in Loads(inflight) :
             Continues(r)
                 => /\ ~loading'
                    /\ r.ok => /\ todos' = r.data
                               /\ IsDesc(todos')
                               /\ Len(todos') = Cardinality(Ids(todos'))
                               /\ {todos'[i] : i \in 1..Len(todos')}
                                     = InScope(variant, remote)
                    /\ ~r.ok => /\ error' = RemoteMsg
                                /\ todos' = <<>>
                                /\ Loads(inflight') = {}
       /\ mounted => \A r \in Loads(inflight') : r.phase = "sent" => r \in inflight
      ]_vars

C13_Witness ==
    /\ last.op = "load"
    /\ ~last.ok
    /\ error = RemoteMsg
    /\ ~loading
    /\ todos = <<>>
    /\ inflight = {}
    /\ InScope(variant, remote) # {}

\* C15: CancelEdit issues no remote request: it leaves no task being edited,
\* empties the draft text and leaves the local list, the remote table and
\* the outstanding requests unchanged.
C15_CancelEditDiscards ==
    [][(GestureStep /\ gesture' = "cancelEdit")
          => /\ editingTodo # NoId
             /\ editingTodo' = NoId
             /\ editText' = <<>>
             /\ todos' = todos
             /\ remote' = remote
             /\ inflight' = inflight]_vars

C15_Witness ==
    /\ gesture = "cancelEdit"
    /\ editingTodo = NoId
    /\ editText = <<>>
    /\ todos # <<>>
    /\ inflight # {}

\* C17: when the response of a successful SaveEdit(id) is applied, the local
\* list keeps its length and order, the task with that id keeps its id,
\* completed and created_at and has the trimmed draft of the save as its
\* text, every other task is as it was just before, and no task is being
\* edited; when the response of a failed SaveEdit is applied, the list, the
\* task being edited and the draft text stay as they are and the error is
\* set.
C17_SaveEditInPlace ==
    [][\A r \in inflight :
          (Continues(r) /\ r.op = "updateText")
              => /\ r.ok =>
                    /\ Len(todos') = Len(todos)
                    /\ \A i \in 1..Len(todos) :
                          todos'[i] =
                             IF todos[i].id = r.id
                             THEN [todos[i] EXCEPT !.text = r.text]
                             ELSE todos[i]
                    /\ editingTodo' = NoId
                 /\ ~r.ok =>
                    /\ editingTodo' = editingTodo
                    /\ editText' = editText
                    /\ todos' = todos
                    /\ error' = RemoteMsg]_vars

\* C19: in every reachable state the ids of the tasks of the local list are
\* pairwise distinct, the remote collaborator giving every inserted row an
\* id no other row has had.
C19_IdsDistinct ==
    \A i, j \in 1..Len(todos) : todos[i].id = todos[j].id => i = j

C19_Witness ==
    /\ last.op = "insert"
    /\ last.ok
    /\ Len(todos) > Len(last.pre)
    /\ Len(last.pre) >= Cardinality(InScope(variant, SeedRows(variant)))
    /\ inflight = {}

\* C20: in every reachable state of the authenticated variant the task being
\* edited, if there is one, is a task of the local list.
C20_EditingIsPresent ==
    variant = "auth" => (editingTodo = NoId \/ editingTodo \in Ids(todos))

(* --------------- the claims about the gate and the login form ---------- *)

\* the step is the identity collaborator answering call c
Answers(c) ==
    /\ c \in calls
    /\ c.phase = "sent"
    /\ \E d \in calls' : d.n = c.n /\ d.phase = "done"

\* the step is the continuation of the handler that awaits call c
CallContinues(c) ==
    c \in calls /\ c.phase = "done" /\ \A d \in calls' : d.n # c.n

\* the calls a step issues
Issued == {d \in calls' : \A c \in calls : c.n # d.n}

LoginCalls == {c \in calls : c.op \in LoginOps}

\* C14: while no identity is present the task list is not on the screen, has
\* no state and has no load request outstanding, and on the home route Home
\* renders nothing and its redirect is due, which leads to the login route;
\* a load request is issued only by a task list on the screen with an
\* identity present.
C14_GateBlocksTaskList ==
    /\ [](user = Null =>
            /\ Shown # "TodoList"
            /\ ~mounted /\ todos = <<>> /\ inflight = {}
            /\ route = HomeRoute => (Shown = "nothing" /\ ENABLED HomeEffect))
    /\ [][/\ (route = HomeRoute /\ user = Null /\ user' = Null /\ route' # route)
               => route' = AuthRoute
          /\ (\E r \in inflight' : r \notin inflight /\ r.phase = "sent")
               => (user # Null /\ Shown = "TodoList")]_vars

C14_Witness ==
    /\ user = Null
    /\ route = HomeRoute
    /\ Shown = "nothing"
    /\ ~mounted
    /\ \E c \in calls : c.op = "signOut" /\ c.phase = "done" /\ c.ok

\* C16: the sign-out clears the identity when the collaborator carries it
\* out, without redirecting, and the handler redirects to the login route
\* afterwards, when its await returns; when the sign-out call fails, the
\* identity stays, no redirect is issued and the error of the task list that
\* awaits the call is set to the message.
C16_SignOutThenRedirect ==
    [][\A c \in calls :
          c.op = "signOut" =>
             /\ Answers(c) =>
                   /\ route' = route
                   /\ user' = (IF \E d \in calls' : d.n = c.n /\ d.ok
                               THEN Null ELSE user)
             /\ (CallContinues(c) /\ c.ok) =>
                   /\ route' = AuthRoute
                   /\ user' = user
             /\ (CallContinues(c) /\ ~c.ok) =>
                   /\ route' = route
                   /\ user' = user
                   /\ c.live => error' = AuthMsg]_vars

C16_Witness ==
    /\ error = AuthMsg
    /\ Shown = "TodoList"
    /\ user = Me
    /\ route = HomeRoute
    /\ calls = {}

\* C18: a submit of the login form issues exactly one call, sign-in or
\* sign-up as the mode says, and sets loading; the continuation of a call
\* that succeeded redirects to the home route, that of a call that failed
\* sets the error to the message and does not redirect, and both end with
\* loading false.  Loading is true exactly while a call of the form is
\* outstanding, and at most one is.
C18_SubmitOnce ==
    /\ [](/\ Cardinality(LoginCalls) <= 1
          /\ Shown = "Auth" => (authLoading <=> LoginCalls # {})
          /\ Shown # "Auth" => LoginCalls = {})
    /\ [][/\ (authLoading' /\ ~authLoading)
               => /\ Cardinality(Issued) = 1
                  /\ \A d \in Issued :
                        d.op = (IF isLogin THEN "signIn" ELSE "signUp")
          /\ (\E d \in Issued : d.op \in LoginOps) => authLoading'
          /\ \A c \in LoginCalls :
                CallContinues(c) =>
                   /\ ~authLoading'
                   /\ c.ok => route' = HomeRoute
                   /\ ~c.ok => (route' = route /\ authError' = AuthMsg)]_vars

C18_Witness ==
    /\ Shown = "Auth"
    /\ authError = AuthMsg
    /\ ~authLoading
    /\ calls = {}
    /\ user = Null

====
